---- MODULE Spec2Model ----
(***************************************************************************)
(* The voxel grid of src/rendering/raytrace.rs: RaytraceChunk (a dense     *)
(* 64^3 array of u32 block identifiers with a dirty flag), its GPU mirror  *)
(* (GpuRaytraceChunk / Raytracer::write_chunk), its raw file dump          *)
(* (save / load) and the ray traversal RaytraceChunk::raycast.             *)
(*                                                                         *)
(* Representation.  The array `blocks` has 64^3 entries; it is held here   *)
(* as a finite map from flat index to the NONZERO identifiers only, an     *)
(* index outside the map's domain holding 0.  The file and the GPU buffer  *)
(* are held the same way (nonzero bytes / nonzero words only).             *)
(***************************************************************************)
EXTENDS Integers, Sequences, FiniteSets, TLC

VARIABLES blocks, needs_write, gpu_buffer, file, ret, lastSet, rc

vars == <<blocks, needs_write, gpu_buffer, file, ret, lastSet, rc>>

(***************************************************************************)
(* 32-bit integers.  TLC's integers are Java ints, so a u32 is held as a   *)
(* pair <<hi, lo>> of 16-bit halves and an i32 as an Int in                *)
(* -2^31 .. 2^31 - 1.                                                      *)
(***************************************************************************)
Half == 2 ^ 16

\* i32::MAX and i32::MIN
I32Max == 2147483647

I32Min == (-I32Max) - 1

\* `x as u32` for an i32 x: the same 32 bits, read unsigned.
AsU32(x) ==
    IF x >= 0 THEN <<x \div Half, x % Half>>
    ELSE LET y == (x + I32Max) + 1    \* x + 2^31, in 0 .. 2^31 - 1
         IN  <<(y \div Half) + 32768, y % Half>>

\* `u as i32` for a u32 u: the same 32 bits, read signed.
AsI32(u) ==
    IF u[1] < 32768 THEN u[1] * Half + u[2]
    ELSE ((u[1] - 32768) * Half + u[2] - I32Max) - 1

RECURSIVE BitOr(_, _)
\* a | b for naturals a, b.
BitOr(a, b) ==
    IF a = 0 THEN b
    ELSE IF b = 0 THEN a
    ELSE 2 * BitOr(a \div 2, b \div 2) + (IF a % 2 = 1 \/ b % 2 = 1 THEN 1 ELSE 0)

\* x | y on i32: bitwise or of the two's complement patterns.
OrI32(x, y) ==
    LET a == AsU32(x)
        b == AsU32(y)
    IN  AsI32(<<BitOr(a[1], b[1]), BitOr(a[2], b[2])>>)

\* u >= n for a u32 u and 0 <= n < 2^16.
U32Ge(u, n) == u[1] > 0 \/ u[2] >= n

\* v << n for a value that stays below 2^31 (no bits are lost).
Shl(v, n) == v * (2 ^ n)

(***************************************************************************)
(* RaytraceChunk                                                           *)
(***************************************************************************)
\* The grid is 64 x 64 x 64 (the literal 64 of get / set / raycast).
SIXTY_FOUR == 64

\* blocks.len(): 64*64*64.
BlocksLen == SIXTY_FOUR * SIXTY_FOUR * SIXTY_FOUR

\* The empty finite map: every block is 0.
NoBlocks == [i \in {} |-> 0]

\* self.blocks[index]
BlocksAt(b, index) == IF index \in DOMAIN b THEN b[index] ELSE 0

\* self.blocks[index] = id
BlocksPut(b, index, id) ==
    IF id = 0 THEN [i \in (DOMAIN b) \ {index} |-> b[i]]
    ELSE [i \in (DOMAIN b) \cup {index} |-> IF i = index THEN id ELSE b[i]]

\* RaytraceChunk::new()
RaytraceChunk_new == [blocks |-> NoBlocks, needs_write |-> TRUE]

\* A flattening with the y shift of 6: (0, 1, 0) and (0, 0, 1) share a slot.
FlatIndexShift6(x, y, z) == BitOr(BitOr(Shl(y, 6), Shl(z, 6)), x)

\* A range test that reads the OR-ed value as signed: negatives pass.
OutOfRangeSigned(x, y, z) == OrI32(OrI32(x, y), z) >= SIXTY_FOUR

\* The guard of get and set: (x | y | z) as u32 >= 64.
OutOfRange(x, y, z) == U32Ge(AsU32(OrI32(OrI32(x, y), z)), SIXTY_FOUR)

\* ((y << 12) | (z << 6) | x) as usize, computed once the guard has passed.
FlatIndex(x, y, z) == BitOr(BitOr(Shl(y, 12), Shl(z, 6)), x)

\* RaytraceChunk::get
get(b, x, y, z) ==
    IF OutOfRange(x, y, z) THEN 0
    ELSE BlocksAt(b, FlatIndex(x, y, z))

\* RaytraceChunk::set, on the pair (blocks, needs_write).
set(c, x, y, z, id) ==
    IF OutOfRange(x, y, z) THEN c
    ELSE [blocks |-> BlocksPut(c.blocks, FlatIndex(x, y, z), id),
          needs_write |-> TRUE]

(***************************************************************************)
(* f32.  A value is a record [k, v, s]:                                    *)
(*   k = "fin"   a finite number v / One (v an integer; the lattice has    *)
(*               resolution 1e-5 = RAY_PENETRATION); s is the sign bit as  *)
(*               -1 / 1 and tells -0.0 from +0.0 when v = 0;               *)
(*   k = "huge"  the finite number s * v * 1e-5 * 2^126, the result of a   *)
(*               division by f32::MIN_POSITIVE = 2^-126;                   *)
(*   k = "tiny"  f32::MIN_POSITIVE itself;                                 *)
(*   k = "inf"   s * infinity;                                             *)
(*   k = "nan"   NaN.                                                      *)
(* Every operation is exact on the lattice for the rays of the model       *)
(* (origins on the lattice, direction components in {-2,-1,-0,+0,1,2});    *)
(* the special values follow IEEE 754.                                     *)
(***************************************************************************)
One == 10 ^ 5

Sgn(n) == IF n < 0 THEN -1 ELSE 1

Fin(n) == [k |-> "fin", v |-> n, s |-> Sgn(n)]

\* -0.0
NegZero == [k |-> "fin", v |-> 0, s |-> -1]

Huge(m) == [k |-> "huge", v |-> m, s |-> 1]

\* f32::MIN_POSITIVE
MIN_POSITIVE == [k |-> "tiny", v |-> 0, s |-> 1]

\* f32::INFINITY, f32::NEG_INFINITY, f32::NAN
INFINITY == [k |-> "inf", v |-> 0, s |-> 1]

NEG_INFINITY == [k |-> "inf", v |-> 0, s |-> -1]

NAN == [k |-> "nan", v |-> 0, s |-> 1]

IsNan(a) == a.k = "nan"

IsZero(a) == a.k = "fin" /\ a.v = 0

\* Finite f32 values end just below 2^128 = 4 * 2^126.
HugeOverflow == 4 * One

\* The place of a non-NaN value in the order of the reals: <<class, value>>.
Rank(a) ==
    CASE a.k = "inf"  -> <<3 * a.s, 0>>
      [] a.k = "huge" -> <<2 * a.s, a.s * a.v>>
      [] a.k = "tiny" -> <<1, 0>>
      [] OTHER        -> IF a.v > 0 THEN <<1, a.v>>
                         ELSE IF a.v < 0 THEN <<-1, a.v>> ELSE <<0, 0>>

\* a < b, a <= b, a > b, a >= b: false when either is NaN.
FLt(a, b) ==
    /\ ~IsNan(a) /\ ~IsNan(b)
    /\ LET ra == Rank(a)
           rb == Rank(b)
       IN  \/ ra[1] < rb[1]
           \/ ra[1] = rb[1] /\ ra[2] < rb[2]
           \/ ra[1] = 1 /\ rb[1] = 1 /\ a.k = "tiny" /\ b.k = "fin"

FLe(a, b) == ~IsNan(a) /\ ~IsNan(b) /\ ~FLt(b, a)

FGt(a, b) == FLt(b, a)

FGe(a, b) == FLe(b, a)

\* -a
FNeg(a) == IF IsNan(a) THEN a ELSE [a EXCEPT !.v = -(a.v), !.s = -(a.s)]

\* a.abs()
FAbs(a) == IF IsNan(a) \/ a.s = 1 THEN a ELSE FNeg(a)

\* a + b
FAdd(a, b) ==
    CASE IsNan(a) \/ IsNan(b) -> NAN
      [] a.k = "inf" /\ b.k = "inf" -> IF a.s = b.s THEN a ELSE NAN
      [] a.k = "inf" -> a
      [] b.k = "inf" -> b
      [] a.k = "huge" /\ b.k = "huge" ->
            LET n == a.s * a.v + b.s * b.v
            IN  IF n = 0 THEN Fin(0)
                ELSE IF n >= HugeOverflow THEN INFINITY
                ELSE IF -n >= HugeOverflow THEN NEG_INFINITY
                ELSE [k |-> "huge", v |-> n * Sgn(n), s |-> Sgn(n)]
      [] a.k = "huge" -> a          \* the smaller operand is rounded away
      [] b.k = "huge" -> b
      [] a.k = "tiny" -> IF IsZero(b) THEN a ELSE b
      [] b.k = "tiny" -> IF IsZero(a) THEN b ELSE a
      [] OTHER ->
            IF a.v + b.v = 0
            THEN (IF IsZero(a) /\ IsZero(b) /\ a.s = -1 /\ b.s = -1 THEN NegZero ELSE Fin(0))
            ELSE Fin(a.v + b.v)

\* a - b
FSub(a, b) == FAdd(a, FNeg(b))

\* The lattice product and quotient of two finite values: one factor (the
\* divisor) of every product (quotient) of raycast is a direction component,
\* a whole number in the model, so the integers stay within 32 bits.
MulUnits(m, n) ==
    IF m % One = 0 THEN (m \div One) * n
    ELSE IF n % One = 0 THEN m * (n \div One)
    ELSE (m * n) \div One

DivUnits(m, n) ==
    LET an == n * Sgn(n)
        am == m * Sgn(m)
        q  == IF an % One = 0 THEN am \div (an \div One)
              ELSE IF One % an = 0 THEN am * (One \div an)
              ELSE (am * One) \div an
    IN  Sgn(m) * Sgn(n) * q

\* a * b
FMul(a, b) ==
    CASE IsNan(a) \/ IsNan(b) -> NAN
      [] a.k = "inf" \/ b.k = "inf" ->
            IF IsZero(a) \/ IsZero(b) THEN NAN
            ELSE [k |-> "inf", v |-> 0, s |-> a.s * b.s]
      [] a.k = "fin" /\ b.k = "fin" ->
            IF a.v = 0 \/ b.v = 0
            THEN [k |-> "fin", v |-> 0, s |-> a.s * b.s]
            ELSE Fin(MulUnits(a.v, b.v))
      [] OTHER -> NAN               \* no huge or tiny factor arises

\* a / b
FDiv(a, b) ==
    CASE IsNan(a) \/ IsNan(b) -> NAN
      [] IsZero(b) ->
            IF IsZero(a) THEN NAN ELSE [k |-> "inf", v |-> 0, s |-> a.s * b.s]
      [] b.k = "inf" ->
            IF a.k = "inf" THEN NAN ELSE [k |-> "fin", v |-> 0, s |-> a.s * b.s]
      [] a.k = "inf" -> [k |-> "inf", v |-> 0, s |-> a.s * b.s]
      [] b.k = "tiny" /\ a.k = "fin" ->
            IF a.v = 0 THEN a
            ELSE IF a.v * a.s >= HugeOverflow THEN [k |-> "inf", v |-> 0, s |-> a.s]
            ELSE [k |-> "huge", v |-> a.v * a.s, s |-> a.s]
      [] a.k = "fin" /\ b.k = "fin" ->
            IF a.v = 0 THEN [k |-> "fin", v |-> 0, s |-> a.s * b.s]
            ELSE Fin(DivUnits(a.v, b.v))
      [] OTHER -> NAN               \* no other quotient arises

\* f32::max and f32::min: a NaN operand is ignored.
FMax(a, b) == IF IsNan(a) THEN b ELSE IF IsNan(b) THEN a ELSE IF FLt(a, b) THEN b ELSE a

FMin(a, b) == IF IsNan(a) THEN b ELSE IF IsNan(b) THEN a ELSE IF FLt(b, a) THEN b ELSE a

\* Rounding to the nearest whole number, halves upward.
FRound(a) ==
    IF a.k = "fin" THEN [a EXCEPT !.v = ((a.v + (One \div 2)) \div One) * One] ELSE a

\* a.floor() and a.trunc()
FFloor(a) == IF a.k = "fin" THEN [a EXCEPT !.v = (a.v \div One) * One] ELSE a

FTrunc(a) ==
    IF a.k = "fin" THEN [a EXCEPT !.v = a.s * (((a.v * a.s) \div One) * One)] ELSE a

\* a.fract() = a - a.trunc() (glam, as f32::fract)
FFract(a) == IF a.k = "inf" THEN NAN ELSE FSub(a, FTrunc(a))

\* a.signum(): +-1.0 by the sign bit (also of a zero), NaN for NaN.
FSignum(a) == IF IsNan(a) THEN a ELSE Fin(a.s * One)

\* `a as i32`: truncation, saturating; NaN gives 0.
F32AsI32(a) ==
    CASE IsNan(a) -> 0
      [] a.k = "inf" \/ a.k = "huge" -> IF a.s = 1 THEN I32Max ELSE I32Min
      [] a.k = "tiny" -> 0
      [] OTHER -> a.s * ((a.v * a.s) \div One)

(***************************************************************************)
(* Ray3, Face, RayHit                                                      *)
(***************************************************************************)
Axes == 1 .. 3

Ray3(pos, dir) == [pos |-> pos, dir |-> dir]

\* Ray3::point_on_ray: (self.dir * t) + self.pos
point_on_ray(ray, t) == [i \in Axes |-> FAdd(FMul(ray.dir[i], t), ray.pos[i])]

Faces == {"PosX", "PosY", "PosZ", "NegX", "NegY", "NegZ"}

\* Face::axis, as an index 1 .. 3
FaceAxis(f) ==
    CASE f \in {"PosX", "NegX"} -> 1
      [] f \in {"PosY", "NegY"} -> 2
      [] f \in {"PosZ", "NegZ"} -> 3

\* Face::normal, as an integer vector
FaceNormal(f) ==
    CASE f = "PosX" -> <<1, 0, 0>>
      [] f = "PosY" -> <<0, 1, 0>>
      [] f = "PosZ" -> <<0, 0, 1>>
      [] f = "NegX" -> <<-1, 0, 0>>
      [] f = "NegY" -> <<0, -1, 0>>
      [] f = "NegZ" -> <<0, 0, -1>>

\* Option<RayHit>: None, or Some(RayHit {coord, id, face, distance}) with
\* face "None" for Option<Face>::None.
NoHit == [some |-> FALSE, coord |-> <<0, 0, 0>>, id |-> 0, face |-> "None",
          distance |-> Fin(0)]

SomeHit(coord, id, face, distance) ==
    [some |-> TRUE, coord |-> coord, id |-> id, face |-> face, distance |-> distance]

\* RayHit::hit_face
hit_face(coord, distance, id, face) == SomeHit(coord, id, face, distance)

\* The coordinate moved one cell into the block behind the face.
get_hit_cell_inward(h) ==
    CASE h.face = "NegX" -> [h.coord EXCEPT ![1] = h.coord[1] + 1]
      [] h.face = "NegY" -> [h.coord EXCEPT ![2] = h.coord[2] + 1]
      [] h.face = "NegZ" -> [h.coord EXCEPT ![3] = h.coord[3] + 1]
      [] h.face = "PosX" -> [h.coord EXCEPT ![1] = h.coord[1] - 1]
      [] h.face = "PosY" -> [h.coord EXCEPT ![2] = h.coord[2] - 1]
      [] h.face = "PosZ" -> [h.coord EXCEPT ![3] = h.coord[3] - 1]
      [] OTHER -> h.coord

\* RayHit::get_hit_cell
get_hit_cell(h) ==
    CASE h.face = "NegX" -> [h.coord EXCEPT ![1] = h.coord[1] - 1]
      [] h.face = "NegY" -> [h.coord EXCEPT ![2] = h.coord[2] - 1]
      [] h.face = "NegZ" -> [h.coord EXCEPT ![3] = h.coord[3] - 1]
      [] h.face = "PosX" -> [h.coord EXCEPT ![1] = h.coord[1] + 1]
      [] h.face = "PosY" -> [h.coord EXCEPT ![2] = h.coord[2] + 1]
      [] h.face = "PosZ" -> [h.coord EXCEPT ![3] = h.coord[3] + 1]
      [] OTHER -> h.coord

\* SMIDGEN and UNSMIDGEN, in lattice units.
SMIDGEN == 100

UNSMIDGEN == One - SMIDGEN

\* What a lane of Vec3A::max / Vec3A::min gives when an operand is NaN: the
\* operand that is not NaN (SSE2 with a NaN on the left, scalar f32::max) or
\* NaN (NEON).  glam leaves it to the target.
NanLanes == {"operand", "nan"}

\* One lane of Vec3A::max(a, b) and of Vec3A::min(a, b).
LaneMax(a, b, nl) ==
    IF (IsNan(a) \/ IsNan(b)) /\ nl = "nan" THEN NAN ELSE FMax(a, b)

LaneMin(a, b, nl) ==
    IF (IsNan(a) \/ IsNan(b)) /\ nl = "nan" THEN NAN ELSE FMin(a, b)

\* RayHit::get_hit_point(&self, ray, face): point.clamp(min, max), which glam
\* computes as point.max(min).min(max).
get_hit_point(h, ray, face, nl) ==
    LET point   == point_on_ray(ray, h.distance)
        pre_hit == [i \in Axes |-> Fin((h.coord[i] + FaceNormal(face)[i]) * One)]
        min     == [i \in Axes |-> FAdd(pre_hit[i], Fin(SMIDGEN))]
        max     == [i \in Axes |-> FAdd(pre_hit[i], Fin(UNSMIDGEN))]
    IN  [i \in Axes |-> LaneMin(LaneMax(point[i], min[i], nl), max[i], nl)]

(***************************************************************************)
(* RaytraceChunk::raycast                                                  *)
(***************************************************************************)
\* const RAY_PENETRATION: f32 = 1e-5, in lattice units.
RAY_PENETRATION == 1

F64 == Fin(SIXTY_FOUR * One)

\* The (d_min, d_max) of one axis when the origin is outside the grid:
\* the match on step + 1 of lines 899-952.
SlabMinMax(p, d, st) ==
    CASE st + 1 = 0 -> <<FDiv(FSub(p, F64), FNeg(d)), FDiv(p, FNeg(d))>>
      [] st + 1 = 1 -> <<NEG_INFINITY, INFINITY>>
      [] st + 1 = 2 -> <<FDiv(FNeg(p), d), FDiv(FSub(F64, p), d)>>

\* The d_max of one axis when the origin is inside the grid: lines 978-1013.
SlabMax(p, d, st) ==
    CASE st + 1 = 0 -> FDiv(p, FNeg(d))
      [] st + 1 = 1 -> INFINITY
      [] st + 1 = 2 -> FDiv(FSub(F64, p), d)

\* fn calc_delta(mag)
calc_delta(mag) == FDiv(Fin(One), FMax(FAbs(mag), MIN_POSITIVE))

\* calc_t_max with the two fractions exchanged: the distance back to the
\* boundary behind the ray.
calc_t_max_behind(step, fract, mag) ==
    IF step > 0 THEN FDiv(fract, FMax(FAbs(mag), MIN_POSITIVE))
    ELSE IF step < 0 THEN FDiv(FSub(Fin(One), fract), FMax(FAbs(mag), MIN_POSITIVE))
    ELSE INFINITY

\* fn calc_t_max(step, fract, mag)
calc_t_max(step, fract, mag) ==
    IF step > 0 THEN FDiv(FSub(Fin(One), fract), FMax(FAbs(mag), MIN_POSITIVE))
    ELSE IF step < 0 THEN FDiv(fract, FMax(FAbs(mag), MIN_POSITIVE))
    ELSE INFINITY

\* The faces on the far side of each step: Pos for a step of +1.
StepFacesAlong(step) ==
    << IF step[1] >= 0 THEN "PosX" ELSE "NegX",
       IF step[2] >= 0 THEN "PosY" ELSE "NegY",
       IF step[3] >= 0 THEN "PosZ" ELSE "NegZ" >>

\* The tuple `face` of lines 1031-1047: the face against each axis's step.
StepFaces(step) ==
    << IF step[1] >= 0 THEN "NegX" ELSE "PosX",
       IF step[2] >= 0 THEN "NegY" ELSE "PosY",
       IF step[3] >= 0 THEN "NegZ" ELSE "PosZ" >>

\* The face of a hit on the entry cell: the closure of lines 1071-1085.
EntryFace(min, face) ==
    IF FGe(min[1], min[2])
    THEN (IF FGe(min[1], min[3]) THEN face[1] ELSE face[3])
    ELSE (IF FGe(min[2], min[3]) THEN face[2] ELSE face[3])

\* The locals of raycast.  pc = "loop": the traversal loop is to run;
\* pc = "done": raycast has returned `result`.  delta_min = <<>> is None.
\* pc = "point": the caller has computed `point` =
\* result.get_hit_point(ray, pface).
\* pc = "clicked": the caller has answered the hit `first` with a set
\* (click = "remove" or "place") and is to cast the same ray again.
Locals(pc, ray, max_distance, pos, step, delta_min, delta_max, delta_add, delta, t_max, cell, max_d, result) ==
    [pc |-> pc, ray |-> ray, max_distance |-> max_distance, pos |-> pos,
     step |-> step, delta_min |-> delta_min, delta_max |-> delta_max,
     delta_add |-> delta_add, delta |-> delta, face |-> StepFaces(step),
     t_max |-> t_max, cell |-> cell, max_d |-> max_d, result |-> result,
     iter |-> 0, axis |-> 0, point |-> <<Fin(0), Fin(0), Fin(0)>>, pface |-> "None",
     click |-> "none", first |-> NoHit]

Zero3 == <<Fin(0), Fin(0), Fin(0)>>

\* raycast has returned `result` before the loop.
Returned(ray, max_distance, pos, step, delta_min, delta_add, cell, result) ==
    Locals("done", ray, max_distance, pos, step, delta_min, Zero3, delta_add,
           Zero3, Zero3, cell, Zero3, result)

\* Lines 1021-1095, common to both branches: delta, face, fract, t_max, the
\* starting cell and its test, max_d.
raycast_start(b, ray, max_distance, pos, step, delta_min, delta_max, delta_add) ==
    LET delta == [i \in Axes |-> calc_delta(ray.dir[i])]
        fract == [i \in Axes |-> FFract(pos[i])]
        t_max == [i \in Axes |->
                    FAdd(calc_t_max(step[i], fract[i], ray.dir[i]), delta_add)]
        cell  == [i \in Axes |-> F32AsI32(FFloor(pos[i]))]
        id    == get(b, cell[1], cell[2], cell[3])
        max_d == [i \in Axes |-> FMin(delta_max[i], max_distance)]
    IN  IF id # 0
        THEN Returned(ray, max_distance, pos, step, delta_min, delta_add, cell,
                 SomeHit(cell, id,
                         IF delta_min = <<>> THEN "None"
                         ELSE EntryFace(delta_min, StepFaces(step)),
                         delta_add))
        ELSE Locals("loop", ray, max_distance, pos, step, delta_min, delta_max,
                    delta_add, delta, t_max, cell, max_d, NoHit)

\* Lines 873-1095: raycast up to the traversal loop.
raycast_enter(b, ray, max_distance) ==
    LET lt      == [i \in Axes |-> FLt(ray.pos[i], Fin(0))]
        ge      == [i \in Axes |-> FGe(ray.pos[i], F64)]
        outside == [i \in Axes |-> lt[i] \/ ge[i]]
        sign    == [i \in Axes |-> FSignum(ray.dir[i])]
        step    == [i \in Axes |-> F32AsI32(sign[i])]
    IN  IF \E i \in Axes : outside[i]
        THEN LET neg_sign == [i \in Axes |-> FLt(sign[i], Fin(0))]
                 pos_sign == [i \in Axes |-> FGt(sign[i], Fin(0))]
                 d        == [i \in Axes |-> SlabMinMax(ray.pos[i], ray.dir[i], step[i])]
                 max_min  == FMax(d[1][1], FMax(d[2][1], d[3][1]))
                 min_max  == FMin(d[1][2], FMin(d[2][2], d[3][2]))
                 delta_add == FAdd(max_min, Fin(RAY_PENETRATION))
                 pos      == [i \in Axes |-> FAdd(ray.pos[i], FMul(ray.dir[i], delta_add))]
                 early    == Returned(ray, max_distance, ray.pos, step, <<>>, Fin(0),
                                      <<0, 0, 0>>, NoHit)
             IN  IF \E i \in Axes : (lt[i] /\ neg_sign[i]) \/ (ge[i] /\ pos_sign[i])
                 THEN early
                 ELSE IF FGe(max_min, min_max) THEN early
                 ELSE IF FGe(delta_add, max_distance) THEN early
                 ELSE raycast_start(b, ray, max_distance, pos, step,
                                    <<d[1][1], d[2][1], d[3][1]>>,
                                    <<d[1][2], d[2][2], d[3][2]>>, delta_add)
        ELSE raycast_start(b, ray, max_distance, ray.pos, step, <<>>,
                           [i \in Axes |-> SlabMax(ray.pos[i], ray.dir[i], step[i])],
                           Fin(0))

\* The comparison chain with < for <=: a tie goes to the later axis.
SelectAxisStrict(t_max) ==
    IF FLt(t_max[1], t_max[2])
    THEN (IF FLt(t_max[1], t_max[3]) THEN 1 ELSE 3)
    ELSE (IF FLt(t_max[2], t_max[3]) THEN 2 ELSE 3)

\* The axis the loop body selects: the comparison chain of lines 1098-1142.
SelectAxis(t_max) ==
    IF FLe(t_max[1], t_max[2])
    THEN (IF FLe(t_max[1], t_max[3]) THEN 1 ELSE 3)
    ELSE (IF FLe(t_max[2], t_max[3]) THEN 2 ELSE 3)

\* cell.<a> += step.<a>  (i32; the sum stays far from the ends of i32 here)
StepCell(cell, step, a) == [cell EXCEPT ![a] = cell[a] + step[a]]

\* The loop body with the exit test against delta_max alone: max_distance
\* does not bound the traversal.
loop_iter_unbounded(b, l) ==
    LET a == SelectAxis(l.t_max)
    IN  IF FGe(l.t_max[a], l.delta_max[a])
        THEN [l EXCEPT !.pc = "done", !.result = NoHit, !.axis = a,
                       !.iter = l.iter + 1]
        ELSE LET cell == StepCell(l.cell, l.step, a)
                 id   == get(b, cell[1], cell[2], cell[3])
             IN  IF id # 0
                 THEN [l EXCEPT !.pc = "done", !.cell = cell, !.axis = a,
                                !.iter = l.iter + 1,
                                !.result = hit_face(cell, l.t_max[a], id, l.face[a])]
                 ELSE [l EXCEPT !.cell = cell, !.axis = a, !.iter = l.iter + 1,
                                !.t_max[a] = FAdd(l.t_max[a], l.delta[a])]

\* The loop body reporting the bound max_d of the selected axis as the
\* distance of a hit.
loop_iter_bound_distance(b, l) ==
    LET a == SelectAxis(l.t_max)
    IN  IF FGe(l.t_max[a], l.max_d[a])
        THEN [l EXCEPT !.pc = "done", !.result = NoHit, !.axis = a,
                       !.iter = l.iter + 1]
        ELSE LET cell == StepCell(l.cell, l.step, a)
                 id   == get(b, cell[1], cell[2], cell[3])
             IN  IF id # 0
                 THEN [l EXCEPT !.pc = "done", !.cell = cell, !.axis = a,
                                !.iter = l.iter + 1,
                                !.result = hit_face(cell, l.max_d[a], id, l.face[a])]
                 ELSE [l EXCEPT !.cell = cell, !.axis = a, !.iter = l.iter + 1,
                                !.t_max[a] = FAdd(l.t_max[a], l.delta[a])]

\* One iteration of the loop of lines 1096-1143.
loop_iter(b, l) ==
    LET a == SelectAxis(l.t_max)
    IN  IF FGe(l.t_max[a], l.max_d[a])
        THEN [l EXCEPT !.pc = "done", !.result = NoHit, !.axis = a,
                       !.iter = l.iter + 1]
        ELSE LET cell == StepCell(l.cell, l.step, a)
                 id   == get(b, cell[1], cell[2], cell[3])
             IN  IF id # 0
                 THEN [l EXCEPT !.pc = "done", !.cell = cell, !.axis = a,
                                !.iter = l.iter + 1,
                                !.result = hit_face(cell, l.t_max[a], id, l.face[a])]
                 ELSE [l EXCEPT !.cell = cell, !.axis = a, !.iter = l.iter + 1,
                                !.t_max[a] = FAdd(l.t_max[a], l.delta[a])]

\* The loop is run for at most MaxIter iterations (a traversal that has not
\* returned by then is left with pc = "loop").
MaxIter == 210

RECURSIVE run_loop(_, _, _)
run_loop(b, l, fuel) ==
    IF l.pc # "loop" \/ fuel = 0 THEN l
    ELSE IF fuel = 1 THEN loop_iter(b, l)
    ELSE run_loop(b, run_loop(b, l, fuel \div 2), fuel - (fuel \div 2))

\* RaytraceChunk::raycast(ray, max_distance) as a whole.
raycast(b, ray, max_distance) == run_loop(b, raycast_enter(b, ray, max_distance), MaxIter)

(***************************************************************************)
(* save / load: the file is blocks.len() big-endian u32 words.             *)
(***************************************************************************)
\* u32::to_be_bytes / u32::from_be_bytes (identifiers of the model are < 2^31)
to_be_bytes(v) ==
    <<v \div (2 ^ 24), (v \div (2 ^ 16)) % 256, (v \div (2 ^ 8)) % 256, v % 256>>

\* The four bytes read least significant first.
from_le_bytes(buf) == ((buf[4] * 256 + buf[3]) * 256 + buf[2]) * 256 + buf[1]

from_be_bytes(buf) == ((buf[1] * 256 + buf[2]) * 256 + buf[3]) * 256 + buf[4]

\* A file: absent, or `len` bytes of which `bytes` maps the nonzero ones.
NoFile == [exists |-> FALSE, len |-> 0, bytes |-> NoBlocks]

ByteAt(f, off) == IF off \in DOMAIN f.bytes THEN f.bytes[off] ELSE 0

\* The capacity of std's BufWriter / BufReader (8 KiB).
BufCapacity == 8192

\* The bytes save hands to the BufWriter: word i at offset 4 * i.
SaveBytes(b) ==
    LET offs == {4 * i + k : i \in DOMAIN b, k \in 0 .. 3}
        byte(o) == to_be_bytes(b[o \div 4])[(o % 4) + 1]
    IN  [o \in {p \in offs : byte(p) # 0} |-> byte(o)]

\* The file after `n` bytes of save's output reached it.
FileImage(b, n) ==
    LET all == SaveBytes(b)
    IN  [exists |-> TRUE, len |-> n,
         bytes |-> [o \in {p \in DOMAIN all : p < n} |-> all[o]]]

\* Number of buffer flushes a complete save needs; the last one happens when
\* the BufWriter is dropped at the end of save, and its error is discarded.
SaveFlushes == (BlocksLen * 4) \div BufCapacity

\* RaytraceChunk::save.  `w` is what the file system lets through: -1 when
\* create_dir_all / File::create fails, else the number of buffer flushes
\* that succeed before one fails (SaveFlushes: none fails).
\* Gives <<file', result>>.
save(b, f, w) ==
    IF w < 0 THEN <<f, "Err">>
    ELSE <<FileImage(b, w * BufCapacity),
           IF w >= SaveFlushes - 1 THEN "Ok" ELSE "Err">>

\* RaytraceChunk::load.  Gives <<chunk', result>>.
load(c, f) ==
    IF ~f.exists THEN <<c, "Err">>
    ELSE LET avail == f.len \div 4                  \* whole words in the file
             n     == IF avail < BlocksLen THEN avail ELSE BlocksLen
             word(i) == from_be_bytes(<<ByteAt(f, 4 * i), ByteAt(f, 4 * i + 1),
                                        ByteAt(f, 4 * i + 2), ByteAt(f, 4 * i + 3)>>)
             fromFile == {i \in {o \div 4 : o \in DOMAIN f.bytes} : i < n /\ word(i) # 0}
             kept     == {i \in DOMAIN c.blocks : i >= n}
             nb       == [i \in fromFile \cup kept |->
                            IF i < n THEN word(i) ELSE c.blocks[i]]
         IN  IF n = BlocksLen
             THEN <<[blocks |-> nb, needs_write |-> TRUE], "Ok">>
             ELSE <<[blocks |-> nb, needs_write |-> c.needs_write], "Err">>

(***************************************************************************)
(* GpuRaytraceChunk and Raytracer                                          *)
(***************************************************************************)
\* No Raytracer (and no GPU buffer) yet.
NoGpu == [created |-> FALSE, words |-> NoBlocks]

\* A write of the first word of the blocks only.
gpu_write_first_word(b) ==
    [created |-> TRUE, words |-> [i \in DOMAIN b \cap {0} |-> b[i]]]

\* GpuRaytraceChunk::write_chunk: queue.write_buffer(buffer, 0, blocks)
gpu_write_chunk(b) == [created |-> TRUE, words |-> b]

Idle == [pc |-> "idle"]

NoRet == [op |-> "none", res |-> "none"]

NeverSet == [c \in {} |-> 0]

(***************************************************************************)
(* Spec: one RaytraceChunk, later owned by a Raytracer, and its file.      *)
(***************************************************************************)
\* Coordinates and identifiers the callers pass to set.
SetCoords == {<<0, 0, 0>>, <<63, 63, 63>>, <<64, 0, 0>>, <<0, -1, 0>>}

Ids == {0, 1, 258}

\* What the file system lets through in a save.
SaveOutcomes == {-1, 1, SaveFlushes - 1, SaveFlushes}

\* Files found at the path that this chunk did not write: one of
\* 64^3 * 4 + 4 bytes whose first word is 7, and one of 6 bytes.
ForeignFiles ==
    { [exists |-> TRUE, len |-> 4 * BlocksLen + 4, bytes |-> [o \in {3} |-> 7]],
      [exists |-> TRUE, len |-> 6, bytes |-> [o \in {3, 5} |-> 1]] }

\* Rays the callers cast in Spec: <<origin, direction, max_distance>>.
SpecRays ==
    { <<<<Fin(50000), Fin(150000), Fin(50000)>>, <<Fin(0), Fin(-One), Fin(0)>>, Fin(200 * One)>>,
      <<<<Fin(65 * One), Fin(6350000), Fin(6350000)>>, <<Fin(-One), Fin(0), Fin(One)>>, Fin(200 * One)>> }

Init ==
    /\ blocks = RaytraceChunk_new.blocks
    /\ needs_write = RaytraceChunk_new.needs_write
    /\ gpu_buffer = NoGpu
    /\ file = NoFile
    /\ ret = NoRet
    /\ lastSet = NeverSet
    /\ rc = Idle

\* chunk.set(x, y, z, id)
DoSet(x, y, z, id) ==
    LET c == set([blocks |-> blocks, needs_write |-> needs_write], x, y, z, id)
    IN  /\ blocks' = c.blocks
        /\ needs_write' = c.needs_write
        /\ ret' = [op |-> "set", res |-> "none"]
        /\ UNCHANGED <<gpu_buffer, file, lastSet, rc>>

\* chunk.get(x, y, z)
DoGet(x, y, z) ==
    /\ ret' = [op |-> "get", res |-> get(blocks, x, y, z)]
    /\ UNCHANGED <<blocks, needs_write, gpu_buffer, file, lastSet, rc>>

\* Raytracer::new(.., Some(chunk), ..): GpuRaytraceChunk::new copies the
\* blocks into a new buffer and clears needs_write; write_chunk copies again.
RaytracerNew ==
    /\ ~gpu_buffer.created
    /\ gpu_buffer' = gpu_write_chunk(blocks)
    /\ needs_write' = FALSE
    /\ ret' = [op |-> "new", res |-> "none"]
    /\ UNCHANGED <<blocks, file, lastSet, rc>>

\* Raytracer::write_chunk
WriteChunk ==
    /\ gpu_buffer.created
    /\ IF ~needs_write
       THEN UNCHANGED <<gpu_buffer, needs_write>>
       ELSE /\ gpu_buffer' = gpu_write_chunk(blocks)
            /\ needs_write' = FALSE
    /\ ret' = [op |-> "write_chunk", res |-> "none"]
    /\ UNCHANGED <<blocks, file, lastSet, rc>>

\* chunk.save(path)
Save(w) ==
    LET r == save(blocks, file, w)
    IN  /\ file' = r[1]
        /\ ret' = [op |-> "save", res |-> r[2]]
        /\ UNCHANGED <<blocks, needs_write, gpu_buffer, lastSet, rc>>

\* Another program leaves the file f at the path load reads.
PutFile(f) ==
    /\ file # f
    /\ file' = f
    /\ ret' = [op |-> "put", res |-> "none"]
    /\ UNCHANGED <<blocks, needs_write, gpu_buffer, lastSet, rc>>

\* chunk.load(path)
Load ==
    LET r == load([blocks |-> blocks, needs_write |-> needs_write], file)
    IN  /\ blocks' = r[1].blocks
        /\ needs_write' = r[1].needs_write
        /\ ret' = [op |-> "load", res |-> r[2]]
        /\ UNCHANGED <<gpu_buffer, file, lastSet, rc>>

\* chunk.raycast(ray, max_distance), run to its return.
DoRaycast(r) ==
    LET l == raycast(blocks, Ray3(r[1], r[2]), r[3])
    IN  /\ l.pc = "done"
        /\ ret' = [op |-> "raycast", res |-> IF l.result.some THEN "Some" ELSE "None"]
        /\ UNCHANGED <<blocks, needs_write, gpu_buffer, file, lastSet, rc>>

Next ==
    \/ \E c \in SetCoords, id \in Ids : DoSet(c[1], c[2], c[3], id)
    \/ \E c \in SetCoords : DoGet(c[1], c[2], c[3])
    \/ RaytracerNew
    \/ WriteChunk
    \/ \E w \in SaveOutcomes : Save(w)
    \/ \E f \in ForeignFiles : PutFile(f)
    \/ Load
    \/ \E r \in SpecRays : DoRaycast(r)

Spec == Init /\ [][Next]_vars

(***************************************************************************)
(* SpecGrid: get and set alone, on a wide range of i32 coordinates, with   *)
(* the history lastSet: the identifier of the latest set call at each      *)
(* coordinate triple that lies in [0, 64)^3.                               *)
(***************************************************************************)
\* At most MaxSolid blocks are made nonzero.
MaxSolid == 2

InBox(x, y, z) ==
    /\ 0 <= x /\ x < SIXTY_FOUR
    /\ 0 <= y /\ y < SIXTY_FOUR
    /\ 0 <= z /\ z < SIXTY_FOUR

GridProbes ==
    { <<0, 0, 0>>, <<1, 0, 0>>, <<0, 1, 0>>, <<0, 0, 1>>, <<63, 63, 63>>,
      <<64, 0, 0>>, <<-1, 0, 0>>, <<0, 64, 0>>, <<0, -1, 0>>, <<0, 0, 64>>,
      <<0, 0, -1>>, <<I32Min, 0, 0>>, <<0, I32Max, 0>>, <<63, 63, -64>>,
      <<-64, -64, -64>>, <<128, 1, 1>>, <<1, 65536, 1>>, <<I32Max, I32Min, 63>> }

InnerProbes == {c \in GridProbes : InBox(c[1], c[2], c[3])}

\* chunk.set(x, y, z, id)
GridSet(c, id) ==
    LET n == set([blocks |-> blocks, needs_write |-> needs_write], c[1], c[2], c[3], id)
    IN  /\ Cardinality(DOMAIN n.blocks) <= MaxSolid
        /\ blocks' = n.blocks
        /\ needs_write' = n.needs_write
        /\ lastSet' = IF InBox(c[1], c[2], c[3])
                      THEN [k \in (DOMAIN lastSet) \cup {c} |->
                              IF k = c THEN id ELSE lastSet[k]]
                      ELSE lastSet
        /\ ret' = [op |-> "set",
                   res |-> IF InBox(c[1], c[2], c[3]) THEN "in" ELSE "out"]
        /\ UNCHANGED <<gpu_buffer, file, rc>>

\* chunk.get(x, y, z)
GridGet(c) ==
    /\ ret' = [op |-> "get", res |-> get(blocks, c[1], c[2], c[3])]
    /\ UNCHANGED <<blocks, needs_write, gpu_buffer, file, lastSet, rc>>

\* chunk.needs_write = false, as GpuRaytraceChunk::new and
\* Raytracer::write_chunk leave the chunk (the buffer is not followed here).
GridSynced ==
    /\ needs_write
    /\ needs_write' = FALSE
    /\ ret' = [op |-> "synced", res |-> "none"]
    /\ UNCHANGED <<blocks, gpu_buffer, file, lastSet, rc>>

NextGrid ==
    \/ \E c \in GridProbes, id \in Ids : GridSet(c, id)
    \/ \E c \in GridProbes : GridGet(c)
    \/ GridSynced

SpecGrid == Init /\ [][NextGrid]_vars

(***************************************************************************)
(* SpecRay: blocks are placed, then rays are cast; the traversal loop      *)
(* runs one iteration per step.                                            *)
(***************************************************************************)
V3(x, y, z) == <<Fin(x), Fin(y), Fin(z)>>

\* The grids rays are cast on: each is built by set(x, y, z, id) calls,
\* given as <<x, y, z, id>>.
Scenes ==
    { {},
      {<<0, 0, 0, 1>>},
      {<<32, 32, 32, 1>>},
      {<<1, 0, 0, 258>>, <<3, 0, 0, 1>>},
      {<<0, 63, 0, 1>>, <<0, 0, 2, 1>>},
      {<<1, 0, 0, 1>>, <<0, 1, 0, 258>>, <<63, 0, 0, 1>>},
      {<<0, 0, 0, 258>>, <<1, 1, 0, 1>>, <<1, 1, 1, 1>>},
      {<<0, 0, 0, 1>>, <<0, 0, 1, 1>>} }

\* Ray origins, in lattice units (One = 1.0).
Origins ==
    { V3(25000, 50000, 75000),          \* inside cell (0, 0, 0)
      V3(One, 50000, 25000),            \* inside, on a cell boundary in x
      V3(-One, 50000, 50000),           \* outside in x
      V3(-One, -2 * One, 50000),        \* outside in x and y
      V3(-One, -One, -One),             \* outside in x, y and z
      V3(64 * One, 50000, 50000),       \* on the face x = 64
      V3(6550000, 25000, 75000),        \* outside beyond x = 64
      V3(32 * One, 100 * One, 32 * One),
      V3(-One, 62 * One - 1, 50000),    \* 1e-5 below y = 62
      V3(-One, 6250000, 50000),
      V3(-One, 63 * One - 1, 50000),    \* 1e-5 below y = 63
      V3(50000, 25000, 50000) }         \* inside, x and z fractions equal

\* Ray directions (not normalised; raycast does not require it).
Dirs ==
    { <<Fin(One), Fin(0), Fin(0)>>, <<Fin(-One), Fin(0), Fin(0)>>,
      <<Fin(0), Fin(One), Fin(0)>>, <<Fin(0), Fin(-One), Fin(0)>>,
      <<Fin(0), Fin(0), Fin(One)>>, <<Fin(0), Fin(0), Fin(-One)>>,
      <<NegZero, Fin(-One), NegZero>>, <<NegZero, Fin(0), Fin(0)>>,
      <<NegZero, NegZero, NegZero>>, <<NegZero, Fin(One), Fin(0)>>,
      <<Fin(0), Fin(0), Fin(0)>>,
      <<Fin(One), Fin(One), Fin(0)>>, <<Fin(One), Fin(One), Fin(One)>>,
      <<Fin(-One), Fin(-One), Fin(-One)>>, <<Fin(One), Fin(-One), Fin(0)>>,
      <<Fin(2 * One), Fin(One), Fin(0)>>, <<Fin(One), Fin(2 * One), Fin(0)>>,
      <<Fin(2 * One), Fin(One), Fin(One)>>, <<Fin(-2 * One), Fin(One), Fin(-One)>>,
      <<Fin(One), Fin(0), Fin(2 * One)>>, <<Fin(-One), Fin(One), Fin(0)>> }

MaxDists == {Fin(-One), Fin(0), Fin(2 * One), Fin(200 * One), INFINITY}

RECURSIVE SetAll(_, _)
\* chunk.set(x, y, z, id) for every <<x, y, z, id>> of `cells`.
SetAll(c, cells) ==
    IF cells = {} THEN c
    ELSE LET k == CHOOSE k \in cells : TRUE
         IN  SetAll(set(c, k[1], k[2], k[3], k[4]), cells \ {k})

\* The set calls that build a scene, on the new chunk.
BuildScene(cells) ==
    LET n == SetAll([blocks |-> blocks, needs_write |-> needs_write], cells)
    IN  /\ rc.pc = "idle"
        /\ blocks = NoBlocks
        /\ cells # {}
        /\ blocks' = n.blocks
        /\ needs_write' = n.needs_write
        /\ UNCHANGED <<gpu_buffer, file, ret, lastSet, rc>>

\* chunk.raycast(ray, max_distance) is called: lines 873-1095.
BeginRaycast(o, d, m) ==
    /\ rc.pc = "idle"
    /\ rc' = raycast_enter(blocks, Ray3(o, d), m)
    /\ UNCHANGED <<blocks, needs_write, gpu_buffer, file, ret, lastSet>>

\* One iteration of raycast's loop: lines 1096-1143.
LoopIter ==
    /\ rc.pc = "loop"
    /\ rc.iter < MaxIter
    /\ rc' = loop_iter(blocks, rc)
    /\ UNCHANGED <<blocks, needs_write, gpu_buffer, file, ret, lastSet>>

\* The caller computes result.get_hit_point(ray, f) of a returned hit.
GetHitPoint(f, nl) ==
    /\ rc.pc = "done"
    /\ rc.result.some
    /\ rc' = [rc EXCEPT !.pc = "point", !.pface = f,
                        !.point = get_hit_point(rc.result, rc.ray, f, nl)]
    /\ UNCHANGED <<blocks, needs_write, gpu_buffer, file, ret, lastSet>>

\* Right mouse button: the hit cell is cleared (state.rs 822-829).
RightClick ==
    LET h == rc.result
        c == set([blocks |-> blocks, needs_write |-> needs_write],
                 h.coord[1], h.coord[2], h.coord[3], 0)
    IN  /\ rc.pc = "done"
        /\ rc.click = "none"
        /\ h.some
        /\ blocks' = c.blocks
        /\ needs_write' = c.needs_write
        /\ rc' = [rc EXCEPT !.pc = "clicked", !.click = "remove", !.first = h]
        /\ UNCHANGED <<gpu_buffer, file, ret, lastSet>>

\* Left mouse button: identifier 1 is set at get_hit_cell() (state.rs 813-821).
LeftClick ==
    LET h    == rc.result
        cell == get_hit_cell(h)
        c    == set([blocks |-> blocks, needs_write |-> needs_write],
                    cell[1], cell[2], cell[3], 1)
    IN  /\ rc.pc = "done"
        /\ rc.click = "none"
        /\ h.some
        /\ blocks' = c.blocks
        /\ needs_write' = c.needs_write
        /\ rc' = [rc EXCEPT !.pc = "clicked", !.click = "place", !.first = h]
        /\ UNCHANGED <<gpu_buffer, file, ret, lastSet>>

\* The next click casts the same ray on the grid as it is now.
Recast ==
    /\ rc.pc = "clicked"
    /\ rc' = [raycast_enter(blocks, rc.ray, rc.max_distance)
                 EXCEPT !.click = rc.click, !.first = rc.first]
    /\ UNCHANGED <<blocks, needs_write, gpu_buffer, file, ret, lastSet>>

\* The caller has taken raycast's result.  A behaviour is followed up to the
\* raycast after its first click.
Return ==
    /\ rc.pc \in {"done", "point"}
    /\ rc.click = "none"
    /\ rc' = Idle
    /\ UNCHANGED <<blocks, needs_write, gpu_buffer, file, ret, lastSet>>

NextRay ==
    \/ \E cells \in Scenes : BuildScene(cells)
    \/ \E o \in Origins, d \in Dirs, m \in MaxDists : BeginRaycast(o, d, m)
    \/ LoopIter
    \/ \E f \in Faces, nl \in NanLanes : GetHitPoint(f, nl)
    \/ RightClick
    \/ LeftClick
    \/ Recast
    \/ Return

SpecRay == Init /\ [][NextRay]_vars

(***************************************************************************)
(* Claims on the grid storage (SpecGrid).                                  *)
(***************************************************************************)
\* The grid's answer at an in-range coordinate, by the history of sets.
LastSetAt(c) == IF c \in DOMAIN lastSet THEN lastSet[c] ELSE 0

\* C1: for every coordinate in [0, 64)^3, get returns the identifier of the
\* most recent set at that coordinate, and 0 if there was none; the flattened
\* index x | (z << 6) | (y << 12) is below 64^3 and differs for different
\* in-range coordinates, so sets at other coordinates never show.
C1_GetReturnsLastSet ==
    /\ \A c \in InnerProbes :
          /\ get(blocks, c[1], c[2], c[3]) = LastSetAt(c)
          /\ FlatIndex(c[1], c[2], c[3]) \in 0 .. (BlocksLen - 1)
    /\ \A c \in InnerProbes, e \in InnerProbes :
          c # e => FlatIndex(c[1], c[2], c[3]) # FlatIndex(e[1], e[2], e[3])
    /\ ret.op = "get" =>
          \E c \in GridProbes :
              ret.res = IF InBox(c[1], c[2], c[3]) THEN LastSetAt(c) ELSE 0

\* C1's case: a cell was overwritten with 0 after being set, two other cells
\* hold different identifiers, and a get has returned a nonzero identifier.
C1_Witness ==
    /\ \E c \in DOMAIN lastSet : lastSet[c] = 0
    /\ \E c \in DOMAIN lastSet, e \in DOMAIN lastSet :
          c # e /\ lastSet[c] = 1 /\ lastSet[e] = 258
    /\ ret.op = "get" /\ ret.res = 258

\* C2: the test ((x | y | z) as u32) >= 64 is true exactly when some
\* coordinate is outside [0, 64), negative coordinates included; at such a
\* coordinate get returns 0 and set changes neither the blocks nor the
\* dirty flag.
C2_OutOfRangeIsRangeTest ==
    \A c \in GridProbes :
        /\ OutOfRange(c[1], c[2], c[3]) <=> ~InBox(c[1], c[2], c[3])
        /\ ~InBox(c[1], c[2], c[3]) =>
              /\ get(blocks, c[1], c[2], c[3]) = 0
              /\ \A id \in Ids :
                    set([blocks |-> blocks, needs_write |-> needs_write],
                        c[1], c[2], c[3], id)
                      = [blocks |-> blocks, needs_write |-> needs_write]

\* C2's case: an out-of-range set has just run on a clean, non-empty grid.
C2_Witness ==
    /\ ret.op = "set" /\ ret.res = "out"
    /\ ~needs_write
    /\ blocks # NoBlocks

(***************************************************************************)
(* Claims on the dirty flag and the GPU mirror (Spec).                     *)
(***************************************************************************)
\* C3: in every state of a Raytracer, if needs_write is false then the GPU
\* buffer holds exactly the identifiers of the grid, in the same flat order.
\* Violated: a load that fails partway has overwritten the leading blocks
\* and left needs_write false.
C3_CleanMeansMirrored ==
    (gpu_buffer.created /\ ~needs_write) => gpu_buffer.words = blocks

\* C4: the dirty flag is set on every mutation: every step that changes a
\* block leaves needs_write true.  Violated by the same failing load.
C4_MutationSetsDirty ==
    [][blocks' # blocks => needs_write']_vars

(***************************************************************************)
(* Claims on raycast (SpecRay).  The geometry of a ray is computed here    *)
(* exactly, in integers: a parameter t is held as 2 * t in lattice units   *)
(* (direction components are whole numbers of magnitude at most 2).        *)
(***************************************************************************)
\* A direction component as a whole number; 0 for +0.0 and -0.0.
DirN(d) == IF d.k = "fin" THEN d.v \div One ELSE 0

AbsN(n) == IF n < 0 THEN -n ELSE n

\* The coordinate triple of a flat index.
CellOf(i) == <<i % 64, i \div 4096, (i \div 64) % 64>>

SolidCells(b) == {CellOf(i) : i \in DOMAIN b}

\* 2 * t at which the ray enters / leaves the slab [c, c + 1] of axis i.
SlabIn2(r, c, i) ==
    LET n == DirN(r.dir[i])
        p == r.pos[i].v
    IN  IF n > 0 THEN (2 \div n) * (c[i] * One - p)
        ELSE (2 \div AbsN(n)) * (p - (c[i] + 1) * One)

SlabOut2(r, c, i) ==
    LET n == DirN(r.dir[i])
        p == r.pos[i].v
    IN  IF n > 0 THEN (2 \div n) * ((c[i] + 1) * One - p)
        ELSE (2 \div AbsN(n)) * (p - c[i] * One)

MovingAxes(r) == {i \in Axes : DirN(r.dir[i]) # 0}

Max2(S) == CHOOSE x \in S : \A y \in S : y <= x

Min2(S) == CHOOSE x \in S : \A y \in S : x <= y

\* 2 * (the entry parameter t >= 0 of the ray into cell c), and the exit.
Enter2(r, c) == Max2({0} \cup {SlabIn2(r, c, i) : i \in MovingAxes(r)})

Exit2(r, c) == Min2({SlabOut2(r, c, i) : i \in MovingAxes(r)})

\* The ray passes through cell c at some t >= 0.
PassesThrough(r, c) ==
    /\ \A i \in Axes \ MovingAxes(r) :
          c[i] * One <= r.pos[i].v /\ r.pos[i].v < (c[i] + 1) * One
    /\ Enter2(r, c) < Exit2(r, c)

\* The nonzero cells the ray passes through which it enters first.
FirstSolid(b, r) ==
    LET P == {c \in SolidCells(b) : PassesThrough(r, c)}
    IN  {c \in P : \A e \in P : Enter2(r, c) <= Enter2(r, e)}

\* 2 * t is below max_distance m.
Below2(t2, m) ==
    \/ m.k = "inf" /\ m.s = 1
    \/ m.k = "fin" /\ t2 < 2 * m.v

\* No two axes of the ray can be on a cell boundary at the same t: the
\* boundary parameters of two moving axes never agree, and a still axis is
\* not on a boundary.
NoTies(r) ==
    /\ \A i \in MovingAxes(r), j \in MovingAxes(r) :
          i # j => (r.pos[i].v * DirN(r.dir[j]) - r.pos[j].v * DirN(r.dir[i])) % One # 0
    /\ \A i \in Axes \ MovingAxes(r) : r.pos[i].v % One # 0

\* The origin lies in the grid, in a cell that holds a nonzero identifier.
OriginCell(r) == [i \in Axes |-> r.pos[i].v \div One]

InSolidCell(b, r) ==
    /\ \A i \in Axes : 0 <= r.pos[i].v /\ r.pos[i].v < SIXTY_FOUR * One
    /\ OriginCell(r) \in SolidCells(b)

\* C5: for a ray with a nonzero direction that never crosses two cell
\* boundaries at once (and a positive max_distance), raycast returns a hit on
\* the nonzero cell the ray enters first when its entry parameter is below
\* max_distance, and None when there is no such cell.  Violated: a nonzero
\* cell the ray leaves within 1e-5 of entering the grid is stepped over.
C5_FirstSolidCell ==
    (/\ rc.pc = "done"
     /\ MovingAxes(rc.ray) # {}
     /\ NoTies(rc.ray)
     /\ FGt(rc.max_distance, Fin(0)))
    => LET S == FirstSolid(blocks, rc.ray)
       IN  IF S # {} /\ Below2(Enter2(rc.ray, CHOOSE c \in S : TRUE), rc.max_distance)
           THEN rc.result.some /\ rc.result.coord \in S
           ELSE ~rc.result.some

\* C6: raycast always terminates, because every iteration of the loop that
\* does not return increases exactly one axis's t_max, strictly, and leaves
\* the other two unchanged.  Violated: from the origin (64, 0.5, 0.5) with
\* direction (-0, 0, 0) every t_max is NaN; the iteration adds to a NaN, no
\* comparison of the loop is ever true, and the z axis is stepped for ever.
C6_LoopProgress ==
    [][(rc.pc = "loop" /\ rc'.pc = "loop") =>
          \E a \in Axes :
              /\ FLt(rc.t_max[a], rc'.t_max[a])
              /\ \A o \in Axes \ {a} : rc'.t_max[o] = rc.t_max[o]]_vars

\* C7: on a grid of zeros raycast returns None for every ray and every
\* max_distance: a raycast that has started has returned None, or its loop
\* has run fewer than MaxIter iterations (more than the 3 * 64 cells of any
\* path through the grid).  Violated by the ray of C6: the loop is still
\* running after MaxIter iterations.
C7_EmptyGridNone ==
    (blocks = NoBlocks /\ rc.pc \in {"loop", "done"}) =>
        \/ rc.pc = "done" /\ ~rc.result.some
        \/ rc.pc = "loop" /\ rc.iter < MaxIter

\* C8: when the origin lies inside the grid in a cell that holds a nonzero
\* identifier, raycast returns, before any loop iteration and for every
\* direction and every max_distance, a hit with coord = floor(origin), that
\* cell's identifier, no face and distance 0.
C8_InsideSolidOrigin ==
    (rc.pc \in {"loop", "done"} /\ InSolidCell(blocks, rc.ray)) =>
        LET c == OriginCell(rc.ray)
        IN  /\ rc.pc = "done"
            /\ rc.iter = 0
            /\ rc.result = SomeHit(<<c[1], c[2], c[3]>>,
                                   blocks[c[1] + 64 * c[3] + 4096 * c[2]],
                                   "None", Fin(0))

\* C8's case: the origin (1.0, 0.5, 0.25) is in the cell (1, 0, 0) holding
\* 258, the direction is all zero and max_distance is -1.
C8_Witness ==
    /\ rc.pc = "done"
    /\ InSolidCell(blocks, rc.ray)
    /\ OriginCell(rc.ray) = <<1, 0, 0>>
    /\ rc.result.some /\ rc.result.id = 258
    /\ MovingAxes(rc.ray) = {}
    /\ rc.max_distance = Fin(-One)

\* C9 as stated: every hit returned by raycast(ray, m) has distance < m.
\* Violated: an origin inside a nonzero cell gives the hit at distance 0
\* for m = 0 and m = -1 too.
C9_HitBelowMax ==
    (rc.pc = "done" /\ rc.result.some) =>
        FLt(rc.result.distance, rc.max_distance)

\* C9, amended: unless the origin lies in the grid inside a nonzero cell, no
\* hit returned by raycast(ray, m) has a distance >= m, and if
\* raycast(ray, INFINITY) returns a hit at distance d then raycast(ray, m)
\* returns None for every m <= d.
C9_BeyondMaxIsNone ==
    (rc.pc = "done" /\ ~InSolidCell(blocks, rc.ray)) =>
        LET u == raycast(blocks, rc.ray, INFINITY)
        IN  /\ rc.result.some => ~FGe(rc.result.distance, rc.max_distance)
            /\ (u.pc = "done" /\ u.result.some
                  /\ FLe(rc.max_distance, u.result.distance)) => ~rc.result.some

\* C9's case: the loop has ended a raycast with max_distance 2 by its
\* distance test, where the unbounded raycast hits a cell farther than 2.
C9_Witness ==
    /\ rc.pc = "done" /\ ~InSolidCell(blocks, rc.ray)
    /\ rc.iter > 0 /\ ~rc.result.some
    /\ rc.max_distance = Fin(2 * One)
    /\ LET u == raycast(blocks, rc.ray, INFINITY)
       IN  u.pc = "done" /\ u.result.some /\ FLt(Fin(2 * One), u.result.distance)

\* C10: if raycast(ray, m1) returns a hit, then on the same grid
\* raycast(ray, m2) returns a hit with the same coord, id, face and distance
\* for every m2 >= m1.
C10_MonotoneInMax ==
    (rc.pc = "done" /\ rc.result.some) =>
        \A m2 \in MaxDists :
            FGe(m2, rc.max_distance) =>
                LET u == raycast(blocks, rc.ray, m2)
                IN  u.pc = "done" /\ u.result = rc.result

\* C10's case: a hit found by the loop with max_distance 2, which a
\* max_distance of 0 does not give.
C10_Witness ==
    /\ rc.pc = "done" /\ rc.result.some /\ rc.iter > 0
    /\ rc.max_distance = Fin(2 * One)
    /\ ~raycast(blocks, rc.ray, Fin(0)).result.some

\* The origin is outside [0, 64) on an axis on which the direction points
\* away from the grid or is zero (+0.0 or -0.0).
AwayOrZero(r) ==
    \E i \in Axes :
        \/ r.pos[i].v < 0 /\ r.dir[i].v <= 0
        \/ r.pos[i].v >= SIXTY_FOUR * One /\ r.dir[i].v >= 0

\* C11: a ray whose origin is outside the grid on an axis on which its
\* direction points away or is zero gets None from raycast, for every grid
\* and every max_distance.  Violated: from the origin (64, 0.5, 0.5) with
\* direction (-0, 1, 0) raycast returns a hit on the block (63, 0, 0).
C11_AwayIsNone ==
    (rc.pc = "done" /\ AwayOrZero(rc.ray)) => ~rc.result.some

\* The ray of C12: origin (32, 100, 32), direction (0, -1, 0).
DownwardRay == Ray3(V3(32 * One, 100 * One, 32 * One), <<Fin(0), Fin(-One), Fin(0)>>)

\* C12: with the single nonzero cell (32, 32, 32), raycast of the ray from
\* (32, 100, 32) along (0, -1, 0) with a max_distance above 67 returns a hit
\* with coord (32, 32, 32), face PosY and a distance within 1e-3 of 67: the
\* entry clip is at 36 + 1e-5 and the hit comes at the 31st step along -Y.
C12_DownwardRayHits ==
    (/\ rc.pc # "idle"
     /\ SolidCells(blocks) = {<<32, 32, 32>>}
     /\ rc.ray = DownwardRay
     /\ FGt(rc.max_distance, Fin(67 * One)))
    => /\ rc.delta_add = Fin(36 * One + RAY_PENETRATION)
       /\ rc.pc = "loop" => rc.iter < 31
       /\ rc.pc = "done" =>
             /\ rc.iter = 31
             /\ rc.result.some
             /\ rc.result.coord = <<32, 32, 32>>
             /\ rc.result.face = "PosY"
             /\ rc.result.distance.k = "fin"
             /\ rc.result.distance.v >= 67 * One - 100
             /\ rc.result.distance.v <= 67 * One + 100

\* C12's case: that raycast, with max_distance 200, has returned its hit.
C12_Witness ==
    /\ rc.pc = "done"
    /\ SolidCells(blocks) = {<<32, 32, 32>>}
    /\ rc.ray = DownwardRay
    /\ rc.max_distance = Fin(200 * One)
    /\ rc.result.some

C14_WrongLengthErr ==
    (ret.op = "load" /\ file.exists /\ file.len # 4 * BlocksLen) => ret.res = "Err"

\* C15: save returns Ok only if all 64^3 * 4 bytes have been written to the
\* file.  Violated: the write of the bytes still held by the BufWriter when
\* save returns fails, and save returns Ok.
C15_SaveOkMeansWritten ==
    (ret.op = "save" /\ ret.res = "Ok") =>
        file.exists /\ file.len = 4 * BlocksLen

(***************************************************************************)
(* Claims on RayHit and on the traversal loop (SpecRay).                   *)
(***************************************************************************)
\* C16 as stated: for a hit with a face, get_hit_cell is the hit coordinate
\* moved one unit opposite the face's normal.  Violated: the code moves it
\* one unit along the normal (PosY gives y + 1).
C16_HitCellOppositeNormal ==
    (rc.pc = "done" /\ rc.result.some /\ rc.result.face # "None") =>
        get_hit_cell(rc.result) =
            [i \in Axes |-> rc.result.coord[i] - FaceNormal(rc.result.face)[i]]

\* C16, amended: for a hit with a face, get_hit_cell is the hit coordinate
\* moved exactly one unit along the face's normal (Face::normal), the other
\* two coordinates unchanged; for a hit without a face it is the hit
\* coordinate.  Stated for the hit raycast returned and for that hit with
\* each of the six faces and with none.
C16_HitCellAlongNormal ==
    (rc.pc = "done" /\ rc.result.some) =>
        \A f \in Faces \cup {"None", rc.result.face} :
            LET h == [rc.result EXCEPT !.face = f]
            IN  IF f = "None"
                THEN get_hit_cell(h) = h.coord
                ELSE get_hit_cell(h) = [i \in Axes |-> h.coord[i] + FaceNormal(f)[i]]

\* C16's case: the hit of the downward ray on (32, 32, 32), face PosY, whose
\* get_hit_cell is (32, 33, 32).
C16_Witness ==
    /\ rc.pc = "done" /\ rc.result.some
    /\ rc.result.face = "PosY"
    /\ rc.result.coord = <<32, 32, 32>>
    /\ get_hit_cell(rc.result) = <<32, 33, 32>>

\* a == b on f32: false when either is NaN.
FEq(a, b) == FLe(a, b) /\ FLe(b, a)

\* C17: in every iteration of the loop the selected axis (rc'.axis) has a
\* t_max that no other axis's t_max is strictly below, and no earlier axis
\* (X before Y before Z) has a t_max equal to it; the cell moves on that
\* axis only.
C17_SmallestAxisStepped ==
    [][(rc.pc = "loop" /\ rc'.pc # "idle" /\ rc'.iter = rc.iter + 1) =>
          LET a == rc'.axis
          IN  /\ \A o \in Axes : ~FLt(rc.t_max[o], rc.t_max[a])
              /\ \A o \in Axes : o < a => ~FEq(rc.t_max[o], rc.t_max[a])
              /\ \A o \in Axes \ {a} : rc'.cell[o] = rc.cell[o]]_vars

\* C17's case: the three t_max were equal and the loop has stepped X.
C17_Witness ==
    /\ rc.pc = "loop" /\ rc.iter >= 1 /\ rc.axis = 1
    /\ rc.t_max[2].k = "fin"
    /\ rc.t_max[2] = rc.t_max[3]
    /\ FSub(rc.t_max[1], rc.delta[1]) = rc.t_max[2]

\* The face of axis a that a step st (+1 or -1) runs into.
FaceAgainst(a, st) ==
    CASE a = 1 -> IF st = 1 THEN "NegX" ELSE "PosX"
      [] a = 2 -> IF st = 1 THEN "NegY" ELSE "PosY"
      [] a = 3 -> IF st = 1 THEN "NegZ" ELSE "PosZ"

\* C18: a hit returned by the loop has coord = the previous cell moved by
\* step on the stepped axis alone, distance = that axis's t_max at the step,
\* id = get(coord), nonzero, and the face of the stepped axis that faces
\* against the step.
C18_LoopHit ==
    [][(rc.pc = "loop" /\ rc'.pc = "done" /\ rc'.result.some) =>
          LET a == rc'.axis
              h == rc'.result
          IN  /\ rc.step[a] \in {-1, 1}
              /\ h.coord = [rc.cell EXCEPT ![a] = rc.cell[a] + rc.step[a]]
              /\ h.distance = rc.t_max[a]
              /\ h.id = get(blocks, h.coord[1], h.coord[2], h.coord[3])
              /\ h.id # 0
              /\ h.face = FaceAgainst(a, rc.step[a])
              /\ FaceAxis(h.face) = a]_vars

\* C18's case: the loop has returned a hit after a step of -1 on X.
C18_Witness ==
    /\ rc.pc = "done" /\ rc.result.some /\ rc.iter >= 2
    /\ rc.axis = 1 /\ rc.step[1] = -1
    /\ rc.result.face = "PosX"

\* C19: an axis whose direction component is zero is never stepped by the
\* loop, for every grid and every max_distance.
C19_ZeroAxisNeverStepped ==
    [][(rc.pc = "loop" /\ rc'.pc # "idle" /\ rc'.iter = rc.iter + 1) =>
          ~IsZero(rc.ray.dir[rc'.axis])]_vars

\* 2 * (the parameter t at which the ray enters the slab [0, 64] of axis i).
GridIn2(r, i) ==
    LET n == DirN(r.dir[i])
        p == r.pos[i].v
    IN  IF n > 0 THEN (2 \div n) * (0 - p)
        ELSE (2 \div AbsN(n)) * (p - SIXTY_FOUR * One)

\* 2 * t_enter: the entry parameter of the ray into the grid.
GridEnter2(r) == Max2({0} \cup {GridIn2(r, i) : i \in MovingAxes(r)})

OutsideGrid(r) ==
    \E i \in Axes : r.pos[i].v < 0 \/ r.pos[i].v >= SIXTY_FOUR * One

\* The value a is within two lattice units (2e-5) of the finite value b.
FNear(a, b) ==
    /\ FLe(FSub(b, Fin(2)), a)
    /\ FLe(a, FAdd(b, Fin(2)))

\* The point original_origin + direction * h.distance lies on the plane of
\* the face of hit h and within the closed extent of h.coord on the other
\* two axes.
OnHitFace(r, h) ==
    LET p == point_on_ray(r, h.distance)
        a == FaceAxis(h.face)
        plane == IF h.face \in {"PosX", "PosY", "PosZ"} THEN h.coord[a] + 1
                 ELSE h.coord[a]
    IN  /\ FNear(p[a], Fin(plane * One))
        /\ \A o \in Axes \ {a} :
              /\ FLe(Fin(h.coord[o] * One - 2), p[o])
              /\ FLe(p[o], Fin((h.coord[o] + 1) * One + 2))

\* C20: every hit of the loop is at a distance measured from the original
\* origin: origin + direction * distance lies on the reported face of the hit
\* cell; a hit on the entry cell after clipping has distance t_enter + 1e-5.
C20_DistanceFromOrigin ==
    (rc.pc = "done" /\ rc.result.some) =>
        /\ rc.iter >= 1 => OnHitFace(rc.ray, rc.result)
        /\ (rc.iter = 0 /\ OutsideGrid(rc.ray)) =>
              /\ rc.result.distance.k = "fin"
              /\ 2 * rc.result.distance.v = GridEnter2(rc.ray) + 2 * RAY_PENETRATION

\* 2 * (the parameter t at which the ray leaves the slab [0, 64] of axis i).
GridOut2(r, i) ==
    LET n == DirN(r.dir[i])
        p == r.pos[i].v
    IN  IF n > 0 THEN (2 \div n) * (SIXTY_FOUR * One - p)
        ELSE (2 \div AbsN(n)) * p

\* 2 * t_exit: the exit parameter of the ray from the grid.
GridExit2(r) == Min2({GridOut2(r, i) : i \in MovingAxes(r)})

\* The entry clip applies to the ray and does not return None: the origin is
\* outside the grid, t_enter < t_exit, t_enter + 1e-5 < max_distance.
ClipPasses(r, m) ==
    /\ OutsideGrid(r)
    /\ MovingAxes(r) # {}
    /\ \A i \in Axes \ MovingAxes(r) :
          0 <= r.pos[i].v /\ r.pos[i].v < SIXTY_FOUR * One
    /\ GridEnter2(r) < GridExit2(r)
    /\ Below2(GridEnter2(r) + 2 * RAY_PENETRATION, m)

\* C21: when the entry clip does not return None, every coordinate of the
\* advanced working origin is in [0, 64) and the starting cell is in bounds.
C21_ClippedOriginInside ==
    (rc.pc # "idle" /\ rc.delta_min # <<>> /\ ClipPasses(rc.ray, rc.max_distance)) =>
        \A i \in Axes :
            /\ FGe(rc.pos[i], Fin(0)) /\ FLt(rc.pos[i], F64)
            /\ (rc.iter = 0 => (0 <= rc.cell[i] /\ rc.cell[i] < SIXTY_FOUR))

\* The moving axis with the largest entry distance into the grid, the first
\* such axis in the order X, Y, Z.
EntryAxis(r) ==
    CHOOSE a \in MovingAxes(r) :
        \A o \in MovingAxes(r) :
            /\ GridIn2(r, o) <= GridIn2(r, a)
            /\ o < a => GridIn2(r, o) < GridIn2(r, a)

\* C22: with the origin outside the grid, a hit on the starting cell is on
\* the cell of the clipped working origin, at distance t_enter + 1e-5, with
\* the face of the axis of largest entry distance (ties X, Y, Z) that faces
\* against the step of that axis.
C22_EntryHit ==
    (rc.pc = "done" /\ rc.result.some /\ rc.iter = 0 /\ OutsideGrid(rc.ray)) =>
        /\ MovingAxes(rc.ray) # {}
        /\ \A i \in Axes :
              /\ rc.pos[i].k = "fin"
              /\ rc.result.coord[i] = rc.pos[i].v \div One
        /\ rc.result.id = get(blocks, rc.result.coord[1], rc.result.coord[2], rc.result.coord[3])
        /\ rc.result.distance.k = "fin"
        /\ 2 * rc.result.distance.v = GridEnter2(rc.ray) + 2 * RAY_PENETRATION
        /\ LET a == EntryAxis(rc.ray)
           IN  rc.result.face = FaceAgainst(a, Sgn(DirN(rc.ray.dir[a])))

InBounds(c) == \A i \in Axes : 0 <= c[i] /\ c[i] < SIXTY_FOUR

\* C23: for every hit of the loop, get_hit_cell() is the cell the traversal
\* occupied before the step into the hit cell, and that cell is in bounds
\* and empty.
C23_HitCellIsPreviousCell ==
    [][(rc.pc = "loop" /\ rc'.pc = "done" /\ rc'.result.some) =>
          /\ get_hit_cell(rc'.result) = rc.cell
          /\ InBounds(rc.cell)
          /\ get(blocks, rc.cell[1], rc.cell[2], rc.cell[3]) = 0]_vars

\* C24: get_hit_point(ray, face) is inside the cell a = coord + normal(face)
\* shrunk by 1e-3: every component is in [a + 0.001, a + 0.999], its floor is
\* a, and a is get_hit_cell() when face is the hit's own face.
C24_HitPointInAdjacentCell ==
    rc.pc = "point" =>
        LET a == [i \in Axes |-> rc.result.coord[i] + FaceNormal(rc.pface)[i]]
        IN  /\ \A i \in Axes :
                  /\ FLe(Fin(a[i] * One + 100), rc.point[i])
                  /\ FLe(rc.point[i], Fin(a[i] * One + 99900))
                  /\ rc.point[i].k = "fin"
                  /\ rc.point[i].v \div One = a[i]
            /\ rc.pface = rc.result.face => a = get_hit_cell(rc.result)

\* C25: set, load, save, get and raycast leave the GPU buffer unchanged;
\* write_chunk with the dirty flag clear leaves the buffer and the flag
\* unchanged; write_chunk with the flag set copies the whole grid into the
\* buffer and clears the flag, so that a second write_chunk changes nothing.
C25_ExplicitResyncOnly ==
    [][/\ ret'.op \in {"set", "load", "save", "get", "raycast"} =>
             gpu_buffer' = gpu_buffer
       /\ (ret'.op = "write_chunk" /\ ~needs_write) =>
             gpu_buffer' = gpu_buffer /\ needs_write' = needs_write
       /\ (ret'.op = "write_chunk" /\ needs_write) =>
             /\ gpu_buffer'.created
             /\ gpu_buffer'.words = blocks
             /\ needs_write' = FALSE
       /\ ret'.op = "write_chunk" => blocks' = blocks /\ ~needs_write']_vars

\* C25's case: write_chunk has returned, the flag is clear and the buffer
\* holds the whole grid, whose first and last cells are nonzero.
C25_Witness ==
    /\ ret.op = "write_chunk"
    /\ gpu_buffer.created
    /\ gpu_buffer.words = blocks
    /\ ~needs_write
    /\ get(blocks, 63, 63, 63) # 0
    /\ get(blocks, 0, 0, 0) # 0

\* The cells that are nonzero in the grid b or in the words of the file f.
LayoutProbes(b, f) ==
    {CellOf(i) : i \in {j \in DOMAIN b \cup {o \div 4 : o \in DOMAIN f.bytes} :
                           j < BlocksLen}}

\* The four bytes of the file f at offset 4 * ((y << 12) | (z << 6) | x).
FileWord(f, c) ==
    LET off == 4 * (c[2] * 4096 + c[3] * 64 + c[1])
    IN  <<ByteAt(f, off), ByteAt(f, off + 1), ByteAt(f, off + 2), ByteAt(f, off + 3)>>

\* The big-endian encoding of a u32.
BigEndian(v) ==
    <<v \div 16777216, (v \div 65536) % 256, (v \div 256) % 256, v % 256>>

\* C26: after save the file has exactly 64^3 * 4 bytes and the four bytes at
\* offset 4 * ((y << 12) | (z << 6) | x) are the big-endian encoding of
\* get(x, y, z); after a successful load every cell has the big-endian value
\* at its offset of the file.
C26_FileLayout ==
    /\ (ret.op = "save" /\ ret.res = "Ok") =>
          /\ file.exists
          /\ file.len = 4 * BlocksLen
          /\ \A c \in LayoutProbes(blocks, file) :
                FileWord(file, c) = BigEndian(get(blocks, c[1], c[2], c[3]))
    /\ (ret.op = "load" /\ ret.res = "Ok") =>
          \A c \in LayoutProbes(blocks, file) :
                BigEndian(get(blocks, c[1], c[2], c[3])) = FileWord(file, c)

\* C27: after a hit h and set(h.coord, 0), no cell other than h.coord has
\* changed, and the same ray cast again returns None or a hit on a cell other
\* than h.coord at a distance >= h.distance.
C27_RemovalSequence ==
    [][/\ (rc.pc = "done" /\ rc'.pc = "clicked" /\ rc'.click = "remove") =>
             /\ get(blocks', rc.result.coord[1], rc.result.coord[2], rc.result.coord[3]) = 0
             /\ \A c \in SolidCells(blocks) \cup SolidCells(blocks') :
                   c # rc.result.coord =>
                       get(blocks', c[1], c[2], c[3]) = get(blocks, c[1], c[2], c[3])
       /\ (rc.pc \in {"clicked", "loop"} /\ rc'.pc = "done" /\ rc'.click = "remove"
             /\ rc'.result.some) =>
             /\ rc'.result.coord # rc'.first.coord
             /\ FGe(rc'.result.distance, rc'.first.distance)]_vars

\* C28: after a hit h with a face and set(c, 1) at c = get_hit_cell(): the
\* cell c was not nonzero before; when c is in bounds the same ray cast again
\* hits c at a distance <= h.distance; when c is out of bounds the grid and
\* the dirty flag are unchanged and the ray cast again returns h.
C28_PlacementSequence ==
    [][/\ (rc.pc = "done" /\ rc'.pc = "clicked" /\ rc'.click = "place"
             /\ rc.result.face # "None") =>
             LET c == get_hit_cell(rc.result)
             IN  /\ get(blocks, c[1], c[2], c[3]) = 0
                 /\ ~InBounds(c) => blocks' = blocks /\ needs_write' = needs_write
       /\ (rc.pc \in {"clicked", "loop"} /\ rc'.pc = "done" /\ rc'.click = "place"
             /\ rc'.first.face # "None") =>
             LET c == get_hit_cell(rc'.first)
             IN  IF InBounds(c)
                 THEN /\ rc'.result.some
                      /\ rc'.result.coord = c
                      /\ FLe(rc'.result.distance, rc'.first.distance)
                 ELSE rc'.result = rc'.first]_vars

\* The number of cell steps the loop has made.
LoopSteps == IF rc.pc = "done" /\ ~rc.result.some /\ rc.iter > 0 THEN rc.iter - 1 ELSE rc.iter

\* C29: every cell the traversal looks up (the starting cell and each cell
\* stepped into) is in bounds, every returned hit has an in-bounds coord with
\* id = get(coord) # 0, and the loop makes at most 3 * 64 steps.
C29_LookupsInBounds ==
    /\ rc.pc = "loop" => InBounds(rc.cell)
    /\ (rc.pc = "done" /\ rc.result.some) =>
          /\ InBounds(rc.result.coord)
          /\ rc.result.id # 0
          /\ rc.result.id = get(blocks, rc.result.coord[1], rc.result.coord[2], rc.result.coord[3])
    /\ rc.pc \in {"loop", "done"} => LoopSteps <= 3 * SIXTY_FOUR

\* C30: a load that returns Err leaves every cell of the grid and the dirty
\* flag as they were before the call.
C30_FailedLoadKeepsGrid ==
    [][(ret'.op = "load" /\ ret'.res = "Err") =>
          blocks' = blocks /\ needs_write' = needs_write]_vars

====
